---- MODULE Spec2Model ----
(***************************************************************************)
(* A state-machine model of the enarx-wasmldr keep runtime (src/main.rs):  *)
(* key provisioning through the attestation adapter, certificate issuance, *)
(* the TLS listener with its single POST /workload route, the CBOR decode  *)
(* of the request body and the dispatch to the execution subsystem that    *)
(* ends the process.                                                       *)
(***************************************************************************)
EXTENDS Integers, Sequences, FiniteSets, TLC

VARIABLES
    pc,                  \* position of main(): a startup step, "listening", "exited" or "panicked"
    exit_code,           \* {} while running or after a panic, {c} after std::process::exit(c)
    now,                 \* the wall clock read by Asn1Time::days_from_now, in seconds
    environ,             \* the process environment, as std::env::vars() yields it
    attest_calls,        \* the calls made to attestation::attest, in order
    expected_key_length, \* retrieve_existing_key: the length the probe reported
    key_bytes,           \* retrieve_existing_key: the buffer of the fetch call
    key,                 \* generate_credentials: the chosen Rsa<Private>
    keygen_calls,        \* the arguments of the calls to Rsa::generate
    cert,                \* the X509 builder / the built certificate
    creds,               \* (server_key, server_cert) returned to main and given to the TLS layer
    conns,               \* the connections of the TLS listener
    run_calls,           \* the calls made to workload::run, in order
    log                  \* the lines written to stdout, stderr and the logger

vars == <<pc, exit_code, now, environ, attest_calls, expected_key_length, key_bytes,
          key, keygen_calls, cert, creds, conns, run_calls, log>>

(***************************************************************************)
(* Bounds of the model.                                                    *)
(***************************************************************************)
\* number of connections the listener sees in one process lifetime
MaxConns == 2
\* number of seconds the clock may advance during startup
MaxClock == 1

None == [tag |-> "None"]
Some(v) == [tag |-> "Some", val |-> v]

RECURSIVE Repeat(_, _)
Repeat(x, n) == IF n = 0 THEN <<>> ELSE <<x>> \o Repeat(x, n - 1)

(***************************************************************************)
(* The Workload Envelope and its CBOR encoding.  The struct is koine's     *)
(* Workload { wasm_binary: Vec<u8>, human_readable_info: String }; the     *)
(* handler names both fields (main.rs:134,137).  Text is a sequence of     *)
(* ASCII codes.                                                            *)
(***************************************************************************)
Workload(info, wasm) == [human_readable_info |-> info, wasm_binary |-> wasm]

\* "human_readable_info"
KeyInfo == <<104, 117, 109, 97, 110, 95, 114, 101, 97, 100, 97, 98, 108, 101, 95, 105, 110, 102, 111>>
\* "wasm_binary"
KeyWasm == <<119, 97, 115, 109, 95, 98, 105, 110, 97, 114, 121>>

\* A CBOR item head: major type in the top 3 bits, argument below 24 inline,
\* below 256 in one following byte.
CborHead(major, n) ==
    IF n < 24 THEN <<major * 32 + n>> ELSE <<major * 32 + 24, n>>

CborText(s) == CborHead(3, Len(s)) \o s

RECURSIVE CborUints(_)
CborUints(bs) ==
    IF bs = <<>> THEN <<>> ELSE CborHead(0, Head(bs)) \o CborUints(Tail(bs))

\* serde's Vec<u8> is a sequence of integers: a CBOR array of unsigned ints.
CborU8Array(bs) == CborHead(4, Len(bs)) \o CborUints(bs)

\* What a client's serde_cbor::to_vec(&workload) puts on the wire: a map of
\* the two named fields.
EncodeWorkload(w) ==
    CborHead(5, 2) \o CborText(KeyWasm) \o CborU8Array(w.wasm_binary)
                   \o CborText(KeyInfo) \o CborText(w.human_readable_info)

(***************************************************************************)
(* serde_cbor::de::from_slice::<Workload> (main.rs:130), on definite-      *)
(* length items.  Positions are 1-based; position 0 stands for an error.   *)
(***************************************************************************)
RECURSIVE BigEndian(_, _, _, _)
BigEndian(b, i, n, acc) ==
    IF n = 0 THEN acc ELSE BigEndian(b, i + 1, n - 1, acc * 256 + b[i])

\* Reads the item head at position i: major type, argument, position after it.
ReadHead(b, i) ==
    IF i < 1 \/ i > Len(b) THEN [ok |-> FALSE, major |-> 0, arg |-> 0, next |-> 0]
    ELSE LET major == b[i] \div 32
             ai    == b[i] % 32
             extra == CASE ai < 24 -> 0
                        [] ai = 24 -> 1
                        [] ai = 25 -> 2
                        [] ai = 26 -> 4
                        [] ai = 27 -> 8
                        [] OTHER   -> 0
         IN  IF ai > 27 \/ i + extra > Len(b)
             THEN [ok |-> FALSE, major |-> major, arg |-> 0, next |-> 0]
             ELSE [ok |-> TRUE, major |-> major,
                   arg |-> IF ai < 24 THEN ai ELSE BigEndian(b, i + 1, extra, 0),
                   next |-> i + 1 + extra]

\* Skips n well-formed items starting at position i (the value of a field the
\* struct does not have): the position after them, 0 when they are malformed.
RECURSIVE SkipItems(_, _, _)
SkipItems(b, i, n) ==
    IF n = 0 THEN i
    ELSE LET h == ReadHead(b, i)
         IN  IF ~h.ok THEN 0
             ELSE CASE h.major \in {0, 1, 7} -> SkipItems(b, h.next, n - 1)
                    [] h.major \in {2, 3} ->
                         IF h.next + h.arg - 1 > Len(b) THEN 0
                         ELSE SkipItems(b, h.next + h.arg, n - 1)
                    [] h.major = 4 -> SkipItems(b, h.next, n - 1 + h.arg)
                    [] h.major = 5 -> SkipItems(b, h.next, n - 1 + 2 * h.arg)
                    [] OTHER -> SkipItems(b, h.next, n)

IsAscii(s) == \A k \in 1..Len(s) : s[k] < 128

\* A string item (text, or bytes for the visitors that take bytes) at i.
ReadString(b, i) ==
    LET h == ReadHead(b, i)
    IN  IF ~h.ok \/ h.major \notin {2, 3} \/ h.next + h.arg - 1 > Len(b)
        THEN [ok |-> FALSE, val |-> <<>>, next |-> 0]
        ELSE LET s == SubSeq(b, h.next, h.next + h.arg - 1)
             IN  [ok |-> IsAscii(s), val |-> s, next |-> h.next + h.arg]

\* n array elements at i, each an unsigned integer that fits a u8.
RECURSIVE ReadU8s(_, _, _, _)
ReadU8s(b, i, n, acc) ==
    IF n = 0 THEN [ok |-> TRUE, val |-> acc, next |-> i]
    ELSE LET h == ReadHead(b, i)
         IN  IF ~h.ok \/ h.major # 0 \/ h.arg > 255
             THEN [ok |-> FALSE, val |-> <<>>, next |-> 0]
             ELSE ReadU8s(b, h.next, n - 1, Append(acc, h.arg))

\* The Vec<u8> visitor takes a sequence only.
ReadU8Array(b, i) ==
    LET h == ReadHead(b, i)
    IN  IF ~h.ok \/ h.major # 4 THEN [ok |-> FALSE, val |-> <<>>, next |-> 0]
        ELSE ReadU8s(b, h.next, h.arg, <<>>)

\* The n entries of the struct's map at i; info and wasm are the fields seen
\* so far.  A repeated field is an error, an unknown field is skipped.
RECURSIVE ReadFields(_, _, _, _, _)
ReadFields(b, i, n, info, wasm) ==
    IF n = 0 THEN [ok |-> TRUE, info |-> info, wasm |-> wasm, next |-> i]
    ELSE LET bad == [ok |-> FALSE, info |-> None, wasm |-> None, next |-> 0]
             k   == ReadString(b, i)
         IN  IF ~k.ok THEN bad
             ELSE IF k.val = KeyInfo THEN
                      LET v == ReadString(b, k.next)
                      IN  IF ~v.ok \/ info # None THEN bad
                          ELSE ReadFields(b, v.next, n - 1, Some(v.val), wasm)
             ELSE IF k.val = KeyWasm THEN
                      LET v == ReadU8Array(b, k.next)
                      IN  IF ~v.ok \/ wasm # None THEN bad
                          ELSE ReadFields(b, v.next, n - 1, info, Some(v.val))
             ELSE LET j == SkipItems(b, k.next, 1)
                  IN  IF j = 0 THEN bad ELSE ReadFields(b, j, n - 1, info, wasm)

DecodeErr == [ok |-> FALSE]

\* The struct is complete when both fields were seen and the map ends the
\* body (Deserializer::end rejects trailing data).
WholeStruct(b, f) ==
    IF ~f.ok \/ f.info = None \/ f.wasm = None \/ f.next # Len(b) + 1
    THEN DecodeErr
    ELSE [ok |-> TRUE, wl |-> Workload(f.info.val, f.wasm.val)]

\* The struct visitor is given the map whose head is h.
TopLevelMap(b, h) ==
    IF ~h.ok \/ h.major # 5 THEN DecodeErr
    ELSE WholeStruct(b, ReadFields(b, h.next, h.arg, None, None))

\* de::from_slice(&workload_bytes) (main.rs:130)
from_slice(b) == TopLevelMap(b, ReadHead(b, 1))

(***************************************************************************)
(* The request bodies the clients send: encoded envelopes, and bodies that *)
(* are not envelope framing (empty, truncated, trailing data, wrong-typed, *)
(* a missing field, a top-level integer).                                  *)
(***************************************************************************)
\* "demo" with the wasm magic; "t" with a one-byte payload
Envelopes == { Workload(<<100, 101, 109, 111>>, <<0, 97, 115, 109>>),
               Workload(<<116>>, <<1>>) }

Truncated(b) == SubSeq(b, 1, Len(b) - 1)

WrongTyped(w) ==
    CborHead(5, 2) \o CborText(KeyWasm) \o CborText(w.wasm_binary)
                   \o CborText(KeyInfo) \o CborText(w.human_readable_info)

MissingField(w) == CborHead(5, 1) \o CborText(KeyInfo) \o CborText(w.human_readable_info)

Bodies ==
    { EncodeWorkload(w) : w \in Envelopes }
    \cup { <<>>, <<0>> }
    \cup { Truncated(EncodeWorkload(Workload(<<116>>, <<1>>))),
           EncodeWorkload(Workload(<<116>>, <<1>>)) \o <<0>>,
           WrongTyped(Workload(<<116>>, <<1>>)),
           MissingField(Workload(<<116>>, <<1>>)) }

(***************************************************************************)
(* The execution subsystem, workload::run (main.rs:112): its result is an  *)
(* input of the model.                                                     *)
(***************************************************************************)
RunResults == { [ok |-> TRUE, val |-> "I32(1)"], [ok |-> FALSE, err |-> "trap"] }

\* The process environment the model starts in, as (name, value) pairs.
Environments == { << <<"RUST_LOG", "info">>, <<"SECRET", "x">> >> }

(***************************************************************************)
(* create_new_runtime (main.rs:104-117): one call of workload::run with    *)
(* the received bytes, the dummy argument array and the whole environment. *)
(* expect() panics on Err, so the function returns Ok(true) or unwinds.    *)
(***************************************************************************)
\* A plausible slip: only the logger's variable is handed on.
run_arguments_filtered(recvd_data, env) ==
    [payload |-> recvd_data, args |-> <<"">>,
     env |-> SelectSeq(env, LAMBDA kv : kv[1] = "RUST_LOG")]

\* the arguments of workload::run(recvd_data, &dummy_arr, vars) (main.rs:109-112)
run_arguments(recvd_data, env) ==
    [payload |-> recvd_data, args |-> <<"">>, env |-> env]

create_new_runtime(recvd_data, run_result, env) ==
    IF run_result.ok
    THEN [call |-> [returned_ok |-> TRUE] @@ run_arguments(recvd_data, env),
          panicked |-> FALSE,
          ret |-> [tag |-> "Ok", val |-> TRUE],
          log |-> <<[stream |-> "log", msg |-> "got result", detail |-> run_result.val]>>]
    ELSE [call |-> [returned_ok |-> FALSE] @@ run_arguments(recvd_data, env),
          panicked |-> TRUE,
          ret |-> None,
          log |-> <<[stream |-> "stderr", msg |-> "Failed to run workload",
                     detail |-> run_result.err]>>]

\* LocalCborErr::new and warp::reject::custom (main.rs:162-163, 269-274)
LocalCborErr(msg) == [details |-> msg]

Rejection(cause) == [tag |-> "Err", rejection |-> cause]

\* A plausible slip: the two arms' codes exchanged.
exit_status_swapped(ret) ==
    IF ret.tag = "Ok"
    THEN [code |-> 1, log |-> <<>>]
    ELSE [code |-> 0, log |-> <<[stream |-> "stderr", msg |-> "error", detail |-> ret.val]>>]

\* The match on create_new_runtime's result that feeds std::process::exit
\* (main.rs:137-146).
exit_status(ret) ==
    IF ret.tag = "Ok"
    THEN [code |-> 0, log |-> <<>>]
    ELSE [code |-> 1, log |-> <<[stream |-> "stderr", msg |-> "error", detail |-> ret.val]>>]

\* A plausible slip: the exit is left out, and the handler goes on to the
\* block that answers CommsComplete::Success (main.rs:149-158).
process_exit_returns(status, calls, lines) ==
    [kind |-> "reply", code |-> status.code, calls |-> calls,
     log |-> lines \o status.log,
     reply |-> Some([tag |-> "Ok", body |-> "CommsComplete::Success"])]

\* std::process::exit (main.rs:137) does not return: the block that builds
\* the CommsComplete::Success reply (main.rs:149-158) is never run.
process_exit(status, calls, lines) ==
    [kind |-> "exit", code |-> status.code, calls |-> calls,
     log |-> lines \o status.log, reply |-> None]

(***************************************************************************)
(* payload_launch (main.rs:119-166), the handler of POST /workload, as one *)
(* non-yielding step: what it does with a fully received body.             *)
(***************************************************************************)
\* std::process::exit(match create_new_runtime(..) {..}) (main.rs:137-146);
\* a panic inside create_new_runtime unwinds through the handler.
exit_after(rt) ==
    IF rt.panicked
    THEN [kind |-> "panic", code |-> 0, calls |-> <<rt.call>>, log |-> rt.log, reply |-> None]
    ELSE process_exit(exit_status(rt.ret), <<rt.call>>, rt.log)

\* the Err(_) arm (main.rs:160-164)
reject_payload ==
    [kind |-> "reject", code |-> 0, calls |-> <<>>,
     log |-> <<[stream |-> "stdout", msg |-> "Payload parsing problem", detail |-> ""]>>,
     reply |-> Some(Rejection(LocalCborErr("Payload parsing problem")))]

\* A plausible slip: a decode failure ends the process with code 1.
match_decoded_exit_on_error(decoded, run_result, env) ==
    IF decoded.ok
    THEN exit_after(create_new_runtime(decoded.wl.wasm_binary, run_result, env))
    ELSE [kind |-> "exit", code |-> 1, calls |-> <<>>, log |-> reject_payload.log,
          reply |-> None]

\* the match on the decode result (main.rs:130-165)
match_decoded(decoded, run_result, env) ==
    IF decoded.ok
    THEN exit_after(create_new_runtime(decoded.wl.wasm_binary, run_result, env))
    ELSE reject_payload

payload_launch(bytes, run_result, env) ==
    match_decoded(from_slice(bytes), run_result, env)

(***************************************************************************)
(* The attestation adapter, attestation::attest(input, output): the module *)
(* is not part of the visible source; its contract is                      *)
(* attest(evidence, out) -> Result<Sev(len) | Sgx(_) | None, Error>,       *)
(* writing into the caller's buffer in place.                              *)
(***************************************************************************)
\* the key lengths a probe may report (a 32-bit quantity)
ProbeLens == {0, 1, 255, 256, 300}

Sev(n) == [tag |-> "Sev", len |-> n]
Sgx(n) == [tag |-> "Sgx", len |-> n]
NoAttestation == [tag |-> "None", len |-> 0]

AttestResults ==
    { [ok |-> TRUE, att |-> Sev(n)] : n \in ProbeLens }
    \cup { [ok |-> TRUE, att |-> Sgx(1)], [ok |-> TRUE, att |-> NoAttestation],
           [ok |-> FALSE, att |-> NoAttestation] }

\* What the adapter may leave in a buffer handed to it: the buffer as it was,
\* or the same number of bytes written over it (here 0x30, the tag a DER key
\* starts with).
AdapterFills(buf) == { buf, Repeat(48, Len(buf)) }

(***************************************************************************)
(* retrieve_existing_key (main.rs:177-210)                                 *)
(***************************************************************************)
\* the empty evidence and the one-byte probe buffer (main.rs:180-182)
input_bytes == <<>>

probe_buffer == <<0>>

\* A plausible slip: the Sgx arm hands on its value like the Sev arm.
probed_key_length_sgx(res) ==
    IF res.ok
    THEN CASE res.att.tag = "Sev" -> res.att.len
           [] res.att.tag = "Sgx" -> res.att.len
           [] OTHER -> 0
    ELSE 0

\* the match on the probe's result (main.rs:183-193)
probed_key_length(res) ==
    IF res.ok
    THEN CASE res.att.tag = "Sev" -> res.att.len
           [] res.att.tag = "Sgx" -> 0
           [] OTHER -> 0
    ELSE 0

\* `expected_key_length as u8` (main.rs:196)
as_u8(n) == n % 256

\* vec![0, ekl_as_u8] (main.rs:197): the two elements 0 and ekl_as_u8
fetch_buffer(ekl) == <<0, as_u8(ekl)>>

\* A plausible slip: the fetch is made whatever the probe reported.
wants_fetch_always(ekl) == ekl >= 0

\* A plausible slip: the guard is taken on the length as the buffer carries it.
wants_fetch_truncated(ekl) == as_u8(ekl) > 0

\* the guard of the fetch call (main.rs:194)
wants_fetch(ekl) == ekl > 0

(***************************************************************************)
(* openssl::rsa::Rsa::private_key_from_der (main.rs:201), which is         *)
(* OpenSSL's d2i_RSAPrivateKey: a BER reader of                            *)
(*   SEQUENCE { version INT32, eight INTEGERs,                             *)
(*              otherPrimeInfos SEQUENCE OF SEQUENCE { three INTEGERs }    *)
(*              OPTIONAL }.                                                *)
(* Bytes after the outer SEQUENCE are not looked at.                       *)
(***************************************************************************)
DerFail ==
    [ok |-> FALSE, cls |-> 0, cst |-> FALSE, tag |-> 0, inf |-> FALSE, start |-> 0, len |-> 0]

\* how many octets equal to v stand at the start of b[p..last]
RunLength(b, p, last, v) ==
    IF \A j \in p..last : b[j] = v THEN last - p + 1
    ELSE CHOOSE z \in 0..(last - p) : b[p + z] # v /\ \A y \in 0..(z - 1) : b[p + y] = v

\* The tag number in its many-octet form (first octet with low bits 11111):
\* seven bits an octet, the last one below 128; a length octet must follow.
RECURSIVE DerTagNumber(_, _, _, _)
DerTagNumber(b, j, last, acc) ==
    IF j + 1 > last THEN [ok |-> FALSE, tag |-> 0, next |-> 0]
    ELSE IF b[j] >= 128
         THEN IF acc * 128 + (b[j] - 128) > 16777215
              THEN [ok |-> FALSE, tag |-> 0, next |-> 0]
              ELSE DerTagNumber(b, j + 1, last, acc * 128 + (b[j] - 128))
         ELSE [ok |-> TRUE, tag |-> acc * 128 + b[j], next |-> j + 1]

\* the tag number may start with octets 128, which add nothing to it
DerTag(b, i, last) ==
    IF b[i] % 32 = 31 THEN DerTagNumber(b, i + 1 + RunLength(b, i + 1, last, 128), last, 0)
    ELSE [ok |-> i + 1 <= last, tag |-> b[i] % 32, next |-> i + 1]

LeadingZeros(b, p, k) == RunLength(b, p, p + k - 1, 0)

\* whether the number written in the s octets from position p is more than
\* avail (avail >= 0), found without forming the number
RECURSIVE LengthExceeds(_, _, _, _)
LengthExceeds(b, p, s, avail) ==
    IF s = 0 THEN FALSE
    ELSE IF avail < b[p + s - 1] THEN TRUE
    ELSE LengthExceeds(b, p, s - 1, (avail - b[p + s - 1]) \div 256)

\* The long form: k length octets of which z are leading zeros.  The length
\* has at most 8 significant octets (a long), is at most 2^63 - 1, and the
\* content must lie within b[..last].
DerLongLength(b, lp, k, z, last) ==
    IF \/ k - z > 8
       \/ (k - z = 8 /\ b[lp + 1 + z] >= 128)
       \/ LengthExceeds(b, lp + 1 + z, k - z, last - (lp + k))
    THEN [ok |-> FALSE, inf |-> FALSE, len |-> 0, start |-> 0]
    ELSE [ok |-> TRUE, inf |-> FALSE, len |-> BigEndian(b, lp + 1 + z, k - z, 0),
          start |-> lp + 1 + k]

\* The length octets at position lp: 128 is the indefinite form, below 128
\* the length itself, above it the count of length octets that follow, and
\* then one octet more must be there.
DerLength(b, lp, last) ==
    IF b[lp] = 128 THEN [ok |-> TRUE, inf |-> TRUE, len |-> last - lp, start |-> lp + 1]
    ELSE IF b[lp] < 128 THEN [ok |-> TRUE, inf |-> FALSE, len |-> b[lp], start |-> lp + 1]
    ELSE IF last - lp < (b[lp] - 128) + 1
         THEN [ok |-> FALSE, inf |-> FALSE, len |-> 0, start |-> 0]
         ELSE DerLongLength(b, lp, b[lp] - 128, LeadingZeros(b, lp + 1, b[lp] - 128), last)

DerHeadLen(b, i, last, t, l) ==
    IF ~l.ok \/ (l.inf /\ (b[i] \div 32) % 2 = 0) \/ l.len > last - l.start + 1
    THEN DerFail
    ELSE [ok |-> TRUE, cls |-> b[i] \div 64, cst |-> (b[i] \div 32) % 2 = 1,
          tag |-> t.tag, inf |-> l.inf, start |-> l.start, len |-> l.len]

DerHeadAt(b, i, last, t) ==
    IF ~t.ok THEN DerFail ELSE DerHeadLen(b, i, last, t, DerLength(b, t.next, last))

\* The header at position i of an item that must lie within b[i..last]:
\* class, constructed bit, tag number, and where the content starts and how
\* long it is (for the indefinite form: all that is left).
DerHead(b, i, last) ==
    IF i < 1 \/ i > last \/ last > Len(b) THEN DerFail
    ELSE DerHeadAt(b, i, last, DerTag(b, i, last))

ContentLast(h) == h.start + h.len - 1

\* the end-of-contents octets 00 00
IsEoc(b, i, last) == i + 1 <= last /\ b[i] = 0 /\ b[i + 1] = 0

IsInteger(h) == h.ok /\ h.cls = 0 /\ h.tag = 2 /\ ~h.cst

IsSequence(h) == h.ok /\ h.cls = 0 /\ h.tag = 16

\* n INTEGERs from position i within b[i..last], each of any content (also
\* none): the position after them, or 0.
RECURSIVE DerIntegers(_, _, _, _)
RECURSIVE DerIntegersFrom(_, _, _, _)
DerIntegersFrom(b, h, n, last) ==
    IF IsInteger(h) THEN DerIntegers(b, h.start + h.len, n - 1, last) ELSE 0

DerIntegers(b, i, n, last) ==
    IF n = 0 THEN i ELSE DerIntegersFrom(b, DerHead(b, i, last), n, last)

\* The end of a SEQUENCE whose fields ended before position j: the definite
\* form is used up exactly, the indefinite form closes with 00 00.  The
\* position after it, or 0.
CloseSequence(b, j, h) ==
    IF h.inf THEN (IF IsEoc(b, j, ContentLast(h)) THEN j + 2 ELSE 0)
    ELSE IF j = ContentLast(h) + 1 THEN j ELSE 0

PrimeInfoClose(b, j, h) == IF j = 0 THEN 0 ELSE CloseSequence(b, j, h)

PrimeInfoIn(b, h) ==
    IF IsSequence(h) /\ h.cst
    THEN PrimeInfoClose(b, DerIntegers(b, h.start, 3, ContentLast(h)), h)
    ELSE 0

\* one element of otherPrimeInfos: a SEQUENCE of three INTEGERs
PrimeInfo(b, i, last) == PrimeInfoIn(b, DerHead(b, i, last))

\* the elements of otherPrimeInfos from position i, counted
RECURSIVE PrimeInfos(_, _, _, _, _)
RECURSIVE PrimeInfosAfter(_, _, _, _, _)
PrimeInfosAfter(b, j, last, inf, count) ==
    IF j = 0 THEN [ok |-> FALSE, next |-> 0, count |-> 0]
    ELSE PrimeInfos(b, j, last, inf, count + 1)

PrimeInfos(b, i, last, inf, count) ==
    IF i > last THEN [ok |-> ~inf, next |-> i, count |-> count]
    ELSE IF IsEoc(b, i, last) THEN [ok |-> inf, next |-> i + 2, count |-> count]
    ELSE PrimeInfosAfter(b, PrimeInfo(b, i, last), last, inf, count)

OtherPrimesIn(b, h) ==
    IF IsSequence(h) THEN PrimeInfos(b, h.start, ContentLast(h), h.inf, 0)
    ELSE [ok |-> FALSE, next |-> 0, count |-> 0]

\* the optional tenth field
OtherPrimes(b, i, last, inf) ==
    IF i > last THEN [ok |-> TRUE, next |-> i, count |-> 0]
    ELSE IF IsEoc(b, i, last) THEN [ok |-> inf, next |-> i, count |-> 0]
    ELSE OtherPrimesIn(b, DerHead(b, i, last))

\* The version is read as a 32-bit signed integer: no content is 0; a first
\* octet 00, or FF before a non-zero rest, is padding and must be needed;
\* and the value must fit.
Int32Padded(c) == c[1] = 0 \/ (c[1] = 255 /\ \E k \in 2..Len(c) : c[k] # 0)

Int32Ok(c) ==
    \/ Len(c) <= 1
    \/ /\ Len(c) <= 4
       /\ Int32Padded(c) => ((c[1] >= 128) # (c[2] >= 128))

\* version 1 is the multi-prime form and needs at least one other prime
RsaTail(b, h, version, others) ==
    /\ others.ok
    /\ CloseSequence(b, others.next, h) # 0
    /\ version = <<1>> => others.count > 0

RsaFields(b, h, version, j) ==
    /\ j # 0
    /\ RsaTail(b, h, version, OtherPrimes(b, j, ContentLast(h), h.inf))

RsaVersion(b, h, v) ==
    /\ IsInteger(v)
    /\ Int32Ok(SubSeq(b, v.start, ContentLast(v)))
    /\ RsaFields(b, h, SubSeq(b, v.start, ContentLast(v)),
                 DerIntegers(b, v.start + v.len, 8, ContentLast(h)))

RsaPrivateKey(b, h) ==
    /\ IsSequence(h)
    /\ h.cst
    /\ RsaVersion(b, h, DerHead(b, h.start, ContentLast(h)))

private_key_from_der(b) ==
    IF RsaPrivateKey(b, DerHead(b, 1, Len(b)))
    THEN Some([origin |-> "recovered", der |-> b])
    ELSE None

(***************************************************************************)
(* generate_credentials (main.rs:213-262)                                  *)
(***************************************************************************)
KEY_SOURCE == "generate"

listen_address == "147.75.68.181"

HostNames == {"keep"}

\* key_length (main.rs:215)
key_length == 2048

\* Rsa::generate(key_length) (main.rs:219)
Rsa_generate(bits) == [origin |-> "generated", bits |-> bits]

SecondsPerDay == 86400

ValidityDays == 7

\* Asn1Time::days_from_now(days), read at clock value t (main.rs:245,248)
days_from_now(t, days) == t + days * SecondsPerDay

\* the subject built at main.rs:230-242
x509_name(addr, host) ==
    [C |-> "GB", O |-> "enarx-test", subjectAltName |-> addr, CN |-> host]

EmptyCert ==
    [subject |-> None, not_before |-> None, not_after |-> None,
     pubkey |-> None, signed_by |-> None, digest |-> None, issued_at |-> None]

\* private_key_to_pem and X509::to_pem (main.rs:259-260)
to_pem(label, der) == [label |-> label, body |-> der]

\* a panic on the main thread ends the process, whatever the panic strategy
MainPanic(msg) ==
    /\ pc' = "panicked"
    /\ log' = Append(log, [stream |-> "stderr", msg |-> msg, detail |-> ""])

StartupPcs == {"start", "probe", "fetch", "parse", "keygen", "subject",
               "not_before", "not_after", "sign", "bind"}

Init ==
    /\ pc = "start"
    /\ exit_code = {}
    /\ now = 0
    /\ environ \in Environments
    /\ attest_calls = <<>>
    /\ expected_key_length = 0
    /\ key_bytes = <<>>
    /\ key = None
    /\ keygen_calls = <<>>
    /\ cert = EmptyCert
    /\ creds = None
    /\ conns = [c \in 1..MaxConns |-> [state |-> "idle", body |-> <<>>, response |-> None]]
    /\ run_calls = <<>>
    /\ log = <<>>

\* The clock advances between the steps that read it; time is counted from
\* the first reading (main.rs:245).
ClockReadPcs == {"not_after", "sign"}

Tick ==
    /\ pc \in ClockReadPcs
    /\ now < MaxClock
    /\ now' = now + 1
    /\ UNCHANGED <<pc, exit_code, environ, attest_calls, expected_key_length, key_bytes,
                   key, keygen_calls, cert, creds, conns, run_calls, log>>

\* main.rs:83-87 and get_credentials_bytes (main.rs:168-175)
GetCredentials ==
    /\ pc = "start"
    /\ IF KEY_SOURCE = "generate"
       THEN pc' = "probe" /\ log' = log
       ELSE MainPanic("No match for credentials source")
    /\ UNCHANGED <<exit_code, now, environ, attest_calls, expected_key_length, key_bytes,
                   key, keygen_calls, cert, creds, conns, run_calls>>

\* the probe call and the match on its result (main.rs:180-194)
Probe ==
    /\ pc = "probe"
    /\ \E res \in AttestResults :
         /\ attest_calls' = Append(attest_calls,
                                   [input |-> input_bytes, output |-> probe_buffer,
                                    ok |-> res.ok, att |-> res.att])
         /\ expected_key_length' = probed_key_length(res)
         /\ pc' = IF wants_fetch(probed_key_length(res)) THEN "fetch" ELSE "keygen"
    /\ UNCHANGED <<exit_code, now, environ, key_bytes, key, keygen_calls, cert, creds,
                   conns, run_calls, log>>

\* the fetch call and its unwrap (main.rs:196-199)
Fetch ==
    /\ pc = "fetch"
    /\ \E ok \in BOOLEAN, filled \in AdapterFills(fetch_buffer(expected_key_length)) :
         /\ attest_calls' = Append(attest_calls,
                                   [input |-> input_bytes,
                                    output |-> fetch_buffer(expected_key_length), ok |-> ok])
         /\ key_bytes' = filled
         /\ IF ok THEN pc' = "parse" /\ log' = log
            ELSE MainPanic("called Result::unwrap() on an Err value")
    /\ UNCHANGED <<exit_code, now, environ, expected_key_length, key, keygen_calls, cert,
                   creds, conns, run_calls>>

\* A plausible slip: the recovered key is dropped and a key always generated.
key_or_generate_always(key_opt) == [generate |-> TRUE, key |-> None]

\* the match on key_opt (main.rs:217-220): a Some(key) is the key, a None
\* asks for Rsa::generate
key_or_generate(key_opt) ==
    IF key_opt # None
    THEN [generate |-> FALSE, key |-> key_opt]
    ELSE [generate |-> TRUE, key |-> None]

\* the parse of the fetched bytes and the match on key_opt (main.rs:201-218)
ParseKey ==
    /\ pc = "parse"
    /\ IF key_or_generate(private_key_from_der(key_bytes)).generate
       THEN key' = key /\ pc' = "keygen"
       ELSE key' = key_or_generate(private_key_from_der(key_bytes)).key /\ pc' = "subject"
    /\ UNCHANGED <<exit_code, now, environ, attest_calls, expected_key_length, key_bytes,
                   keygen_calls, cert, creds, conns, run_calls, log>>

\* Rsa::generate(key_length).unwrap() (main.rs:219)
GenerateKey ==
    /\ pc = "keygen"
    /\ keygen_calls' = Append(keygen_calls, key_length)
    /\ \E ok \in BOOLEAN :
         IF ok THEN key' = Some(Rsa_generate(key_length)) /\ pc' = "subject" /\ log' = log
         ELSE key' = key /\ MainPanic("called Result::unwrap() on an Err value")
    /\ UNCHANGED <<exit_code, now, environ, attest_calls, expected_key_length, key_bytes,
                   cert, creds, conns, run_calls>>

\* PKey::from_rsa, hostname() and the X509 name (main.rs:222-242)
BuildSubject ==
    /\ pc = "subject"
    /\ \E ok \in BOOLEAN, myhostname \in HostNames :
         IF ok
         THEN /\ cert' = [cert EXCEPT !.subject = Some(x509_name(listen_address, myhostname))]
              /\ pc' = "not_before"
              /\ log' = log
         ELSE cert' = cert /\ MainPanic("called Result::unwrap() on an Err value")
    /\ UNCHANGED <<exit_code, now, environ, attest_calls, expected_key_length, key_bytes,
                   key, keygen_calls, creds, conns, run_calls>>

\* What a failure at main.rs:244-250 leaves on stderr: X509::builder() and
\* Asn1Time::days_from_now() are unwrapped, an Err of set_not_before or
\* set_not_after goes to panic!("Problem creating cert {}", e).
ValidityOutcomes == {"ok", "unwrap", "setter"}

validity_panic(outcome) ==
    IF outcome = "unwrap" THEN "called Result::unwrap() on an Err value"
    ELSE "Problem creating cert"

\* X509::builder and set_not_before(days_from_now(0)) (main.rs:244-247)
SetNotBefore ==
    /\ pc = "not_before"
    /\ \E outcome \in ValidityOutcomes :
         IF outcome = "ok"
         THEN /\ cert' = [cert EXCEPT !.not_before = Some(days_from_now(now, 0))]
              /\ pc' = "not_after"
              /\ log' = log
         ELSE cert' = cert /\ MainPanic(validity_panic(outcome))
    /\ UNCHANGED <<exit_code, now, environ, attest_calls, expected_key_length, key_bytes,
                   key, keygen_calls, creds, conns, run_calls>>

\* set_not_after(days_from_now(7)) (main.rs:248-250)
SetNotAfter ==
    /\ pc = "not_after"
    /\ \E outcome \in ValidityOutcomes :
         IF outcome = "ok"
         THEN /\ cert' = [cert EXCEPT !.not_after = Some(days_from_now(now, ValidityDays))]
              /\ pc' = "sign"
              /\ log' = log
         ELSE cert' = cert /\ MainPanic(validity_panic(outcome))
    /\ UNCHANGED <<exit_code, now, environ, attest_calls, expected_key_length, key_bytes,
                   key, keygen_calls, creds, conns, run_calls>>

\* A plausible slip: the certificate is built over a key made for the
\* occasion instead of the provisioned one.
sign_certificate_ephemeral(c, pkey, t) ==
    [c EXCEPT !.pubkey = Some([origin |-> "ephemeral", bits |-> key_length]),
              !.signed_by = Some([origin |-> "ephemeral", bits |-> key_length]),
              !.digest = Some("sha256"), !.issued_at = Some(t)]

\* set_pubkey(&pkey), sign(&pkey, sha256) and build (main.rs:253-255), pkey
\* being PKey::from_rsa(key.clone()) (main.rs:222)
sign_certificate(c, pkey, t) ==
    [c EXCEPT !.pubkey = pkey, !.signed_by = pkey,
              !.digest = Some("sha256"), !.issued_at = Some(t)]

\* the pair generate_credentials returns (main.rs:257-261)
pem_pair(k, certificate) ==
    [server_key |-> to_pem("RSA PRIVATE KEY", k.val),
     server_cert |-> to_pem("CERTIFICATE", certificate)]

\* set_subject_name, set_pubkey, sign, build and the two PEMs (main.rs:252-261)
SignAndSerialize ==
    /\ pc = "sign"
    /\ \E ok \in BOOLEAN :
         IF ok
         THEN /\ cert' = sign_certificate(cert, key, now)
              /\ creds' = Some(pem_pair(key, cert'))
              /\ pc' = "bind"
              /\ log' = log
         ELSE cert' = cert /\ creds' = creds
              /\ MainPanic("called Result::unwrap() on an Err value")
    /\ UNCHANGED <<exit_code, now, environ, attest_calls, expected_key_length, key_bytes,
                   key, keygen_calls, conns, run_calls>>

\* A plausible slip: the listener is started before the certificate is signed.
may_bind_early(at, credentials) == at \in {"sign", "bind"}

\* main() may bind the listener once get_credentials_bytes has returned
\* (main.rs:87-101)
may_bind(at, credentials) == at = "bind" /\ credentials # None

\* warp::serve(routes).tls().cert().key().run(addr) (main.rs:90-101)
Bind ==
    /\ may_bind(pc, creds)
    /\ \E ok \in BOOLEAN :
         IF ok THEN pc' = "listening" /\ log' = log
         ELSE MainPanic("error binding")
    /\ UNCHANGED <<exit_code, now, environ, attest_calls, expected_key_length, key_bytes,
                   key, keygen_calls, cert, creds, conns, run_calls>>

(***************************************************************************)
(* The listener (main.rs:89-101) on the single-threaded scheduler          *)
(* (main.rs:62): connections are accepted and their bodies accumulated     *)
(* between handler runs; a handler, once polled, runs to its end.          *)
(***************************************************************************)
\* A plausible slip: the default threaded scheduler, whose workers poll
\* other tasks while a handler runs.
loop_free_threaded(cs) == TRUE

\* #[tokio::main(basic_scheduler)] (main.rs:62): one thread polls one task at
\* a time, and payload_launch (main.rs:119-166) has no await, so no other task
\* is polled from the moment a handler starts until it ends.
loop_free(cs) == \A d \in DOMAIN cs : cs[d].state # "handling"

\* A plausible slip: the handler is given the body as a stream and starts
\* before the body is complete.
body_ready_streaming(conn) == conn.state \in {"receiving", "complete"}

\* warp::body::bytes() (main.rs:92) resolves when the whole body is in.
body_ready(conn) == conn.state = "complete"

\* A client connects, completes the TLS handshake and starts POST /workload.
Connect(c) ==
    /\ pc = "listening"
    /\ loop_free(conns)
    /\ conns[c].state = "idle"
    /\ IF c = 1 THEN TRUE ELSE conns[c - 1].state # "idle"
    /\ conns' = [conns EXCEPT ![c].state = "receiving"]
    /\ UNCHANGED <<pc, exit_code, now, environ, attest_calls, expected_key_length,
                   key_bytes, key, keygen_calls, cert, creds, run_calls, log>>

\* warp::body::bytes() has the whole body (main.rs:92).
ReceiveBody(c) ==
    /\ pc = "listening"
    /\ loop_free(conns)
    /\ conns[c].state = "receiving"
    /\ \E b \in Bodies :
         conns' = [conns EXCEPT ![c].state = "complete", ![c].body = b]
    /\ UNCHANGED <<pc, exit_code, now, environ, attest_calls, expected_key_length,
                   key_bytes, key, keygen_calls, cert, creds, run_calls, log>>

\* What a panic inside the handler does to the process: with panic=abort the
\* process dies; with unwinding the runtime catches the panic of the
\* connection's task and the listener goes on.
PanicStrategies == {"abort", "unwind"}

\* The effect of one handler run with outcome out on connection c; the
\* handler owns the body and drops it when it ends.
Complete(c, out) ==
    /\ run_calls' = run_calls \o [k \in 1..Len(out.calls) |->
                                     [conn |-> c] @@ out.calls[k]]
    /\ log' = log \o out.log
    /\ CASE out.kind = "exit" ->
              /\ pc' = "exited"
              /\ exit_code' = {out.code}
              /\ conns' = [conns EXCEPT ![c].state = "dispatched", ![c].body = <<>>]
         [] out.kind = "panic" ->
              \E strategy \in PanicStrategies :
                  IF strategy = "abort"
                  THEN /\ pc' = "panicked"
                       /\ conns' = [conns EXCEPT ![c].state = "dispatched", ![c].body = <<>>]
                       /\ exit_code' = exit_code
                  ELSE /\ pc' = pc
                       /\ conns' = [conns EXCEPT ![c].state = "dropped", ![c].body = <<>>]
                       /\ exit_code' = exit_code
         [] OTHER ->
              /\ pc' = pc
              /\ exit_code' = exit_code
              /\ conns' = [conns EXCEPT ![c].state = "responded", ![c].body = <<>>,
                                        ![c].response = out.reply]

\* and_then(payload_launch) (main.rs:93): the event loop polls the handler of
\* a connection whose body is in; the handler takes the bytes (main.rs:124-126).
StartHandler(c) ==
    /\ pc = "listening"
    /\ loop_free(conns)
    /\ body_ready(conns[c])
    /\ conns' = [conns EXCEPT ![c].state = "handling"]
    /\ UNCHANGED <<pc, exit_code, now, environ, attest_calls, expected_key_length,
                   key_bytes, key, keygen_calls, cert, creds, run_calls, log>>

\* the rest of the same poll: decode, dispatch and exit, or the rejection
\* (main.rs:128-165)
HandleRequest(c) ==
    /\ pc = "listening"
    /\ conns[c].state = "handling"
    /\ \E run_result \in RunResults :
         Complete(c, payload_launch(conns[c].body, run_result, environ))
    /\ UNCHANGED <<now, environ, attest_calls, expected_key_length, key_bytes, key,
                   keygen_calls, cert, creds>>

Next ==
    \/ Tick
    \/ GetCredentials
    \/ Probe
    \/ Fetch
    \/ ParseKey
    \/ GenerateKey
    \/ BuildSubject
    \/ SetNotBefore
    \/ SetNotAfter
    \/ SignAndSerialize
    \/ Bind
    \/ \E c \in 1..MaxConns : Connect(c)
    \/ \E c \in 1..MaxConns : ReceiveBody(c)
    \/ \E c \in 1..MaxConns : StartHandler(c)
    \/ \E c \in 1..MaxConns : HandleRequest(c)

Spec == Init /\ [][Next]_vars

(***************************************************************************)
(* Properties                                                              *)
(***************************************************************************)
FixedRejection == Some(Rejection(LocalCborErr("Payload parsing problem")))

Conns == 1..MaxConns

\* connection c's handler runs in this step
Handled(c) == conns[c].state = "handling" /\ conns'[c].state # "handling"

LastCall == run_calls[Len(run_calls)]

\* C1: whenever workload::run returned success for a decoded envelope, the
\* process has ended through std::process::exit with code 0, that call is the
\* last one made, and from the exit on nothing is decoded or dispatched: the
\* connections, the calls and the exit code never change again.
C1_SuccessExitsZero ==
    /\ [](\A i \in 1..Len(run_calls) :
             run_calls[i].returned_ok =>
                 /\ pc = "exited"
                 /\ exit_code = {0}
                 /\ i = Len(run_calls)
                 /\ conns[run_calls[i].conn].state = "dispatched")
    /\ [][pc = "exited" => UNCHANGED <<pc, exit_code, conns, run_calls>>]_vars

\* a successful dispatch ended the process while another request, fully
\* received, was waiting
C1_Witness ==
    /\ pc = "exited"
    /\ exit_code = {0}
    /\ Len(run_calls) = 1
    /\ LastCall.returned_ok
    /\ \E c \in Conns : conns[c].state = "complete" /\ from_slice(conns[c].body).ok

\* C2 (as claimed): whenever workload::run returned a failure for a decoded
\* envelope, the process has ended through std::process::exit with code 1 and
\* the error detail is on stderr.
C2_FailureExitsOne ==
    \A i \in 1..Len(run_calls) :
        ~run_calls[i].returned_ok =>
            /\ pc = "exited"
            /\ exit_code = {1}
            /\ \E k \in 1..Len(log) : log[k].stream = "stderr" /\ log[k].msg = "error"

\* C3 (as claimed): over the whole lifetime of the process workload::run is
\* called at most once, and no connection's envelope is run twice.
C3_RunAtMostOnce ==
    /\ Len(run_calls) <= 1
    /\ \A i, j \in 1..Len(run_calls) : run_calls[i].conn = run_calls[j].conn => i = j

\* C4: a handler run on a body that does not decode answers the fixed
\* rejection, makes no call of workload::run, writes the diagnostic and leaves
\* the process listening; and after a rejection the process keeps listening
\* for as long as no later request was dispatched.
C4_MalformedRejected ==
    /\ [][\A c \in Conns :
            (Handled(c) /\ ~from_slice(conns[c].body).ok) =>
                /\ conns'[c].state = "responded"
                /\ conns'[c].response = FixedRejection
                /\ run_calls' = run_calls
                /\ pc' = "listening"
                /\ exit_code' = {}]_vars
    /\ [](\A c \in Conns :
            (conns[c].state = "responded" /\ run_calls = <<>>) => pc = "listening")

\* a malformed request was rejected and a later valid one was dispatched and
\* ended the process with code 0
C4_Witness ==
    /\ conns[1].state = "responded"
    /\ conns[1].response = FixedRejection
    /\ conns[2].state = "dispatched"
    /\ Len(run_calls) = 1
    /\ LastCall.conn = 2
    /\ exit_code = {0}

ProbeDone == Len(attest_calls) >= 1

\* C5: once the probe has reported a key length of 0 (Sev(0), Sgx, None or an
\* adapter error), the adapter is never called again, retrieve_existing_key
\* returns without a panic, so that any abort comes only after Rsa::generate
\* was called, Rsa::generate is called once with 2048 bits, and the key that
\* goes on to the certificate is that generated key.
C5_ProbeFallback ==
    (ProbeDone /\ expected_key_length = 0) =>
        /\ Len(attest_calls) = 1
        /\ pc \notin {"fetch", "parse"}
        /\ pc = "keygen" => keygen_calls = <<>>
        /\ pc # "keygen" => keygen_calls = <<2048>>
        /\ pc \notin {"keygen", "panicked"} => key = Some([origin |-> "generated", bits |-> 2048])

\* the probe failed, and the listener is up with a generated key
C5_Witness ==
    /\ ProbeDone
    /\ ~attest_calls[1].ok
    /\ pc = "listening"
    /\ key = Some([origin |-> "generated", bits |-> 2048])

\* C6 (as claimed): when the fetch call returns an error, provisioning goes on
\* to generate a fresh key: the process does not abort before Rsa::generate.
C6_FetchErrorFallsBack ==
    (Len(attest_calls) = 2 /\ ~attest_calls[2].ok) =>
        /\ ~(pc = "panicked" /\ keygen_calls = <<>>)
        /\ pc \in {"keygen", "subject", "not_before", "not_after", "sign", "bind",
                   "listening", "exited", "panicked"}

IdentityIssued ==
    /\ key # None
    /\ creds # None
    /\ cert.subject # None
    /\ cert.not_before # None
    /\ cert.not_after # None
    /\ cert.pubkey # None
    /\ cert.signed_by # None

\* C7: the listener is up, and a connection exists, only when the key is
\* provisioned and the certificate issued; a failure before that leaves the
\* process aborted with no connection ever accepted; and an aborted process
\* never takes another step (no retry).
C7_StartupOrdering ==
    /\ [](pc \in {"listening", "exited"} => IdentityIssued)
    /\ [](\A c \in Conns : conns[c].state # "idle" => IdentityIssued)
    /\ []((pc = "panicked" /\ creds = None) => \A c \in Conns : conns[c].state = "idle")
    /\ [][pc = "panicked" => UNCHANGED vars]_vars
    /\ [][(pc \in StartupPcs /\ pc' = "listening") => (pc = "bind" /\ IdentityIssued)]_vars

\* certificate construction failed after the key was chosen: the process is
\* aborted and nothing was accepted
C7_Witness ==
    /\ pc = "panicked"
    /\ key # None
    /\ cert.not_before # None
    /\ creds = None
    /\ \A c \in Conns : conns[c].state = "idle"

\* C8 (as claimed): for every issued certificate not_before <= issuance time
\* <= not_after, and not_after - not_before is exactly 7 days.
C8_ValidityWindow ==
    cert.issued_at # None =>
        /\ cert.not_before.val <= cert.issued_at.val
        /\ cert.issued_at.val <= cert.not_after.val
        /\ cert.not_after.val - cert.not_before.val = 7 * 86400

\* C9: every response a connection ever holds is the rejection of a body that
\* did not decode; a handler run on a body that decodes leaves no response,
\* and a request whose dispatch succeeded has none while the process is gone.
C9_NoSuccessResponse ==
    /\ [](\A c \in Conns :
            conns[c].response # None =>
                (conns[c].state = "responded" /\ conns[c].response = FixedRejection))
    /\ [][\A c \in Conns :
            Handled(c) =>
                IF from_slice(conns[c].body).ok
                THEN conns'[c].response = None
                ELSE conns'[c].response = FixedRejection]_vars
    /\ [](\A i \in 1..Len(run_calls) :
            run_calls[i].returned_ok =>
                (conns[run_calls[i].conn].response = None /\ pc = "exited"))

\* a workload was dispatched with success: the process is gone and the
\* connection holds no response
C9_Witness ==
    /\ pc = "exited"
    /\ Len(run_calls) >= 1
    /\ LastCall.returned_ok
    /\ conns[LastCall.conn].state = "dispatched"
    /\ conns[LastCall.conn].response = None

\* C10: the call of workload::run that a handler makes carries the
\* wasm_binary of the envelope the body encodes, the single empty string as
\* its arguments, and the whole process environment.
C10_DispatchArguments ==
    [][\A c \in Conns :
         (Handled(c) /\ Len(run_calls') > Len(run_calls)) =>
             /\ Len(run_calls') = Len(run_calls) + 1
             /\ \E w \in Envelopes :
                   /\ conns[c].body = EncodeWorkload(w)
                   /\ run_calls'[Len(run_calls')].payload = w.wasm_binary
                   /\ run_calls'[Len(run_calls')].payload # conns[c].body
                   /\ run_calls'[Len(run_calls')].payload # w.human_readable_info
             /\ run_calls'[Len(run_calls')].conn = c
             /\ run_calls'[Len(run_calls')].args = <<"">>
             /\ run_calls'[Len(run_calls')].env = environ]_vars

\* the "demo" envelope was dispatched with the wasm magic as its payload
C10_Witness ==
    /\ Len(run_calls) >= 1
    /\ LastCall.payload = <<0, 97, 115, 109>>
    /\ LastCall.args = <<"">>
    /\ LastCall.env = environ
    /\ Len(environ) = 2

FetchDone == Len(attest_calls) = 2

\* C11 (as claimed): whenever the probe reported Sev(n) with 1 <= n <= 255, the
\* fetch call is made with an output buffer of exactly n bytes, and the bytes
\* given to the DER parser are that buffer, n bytes long, as the adapter left
\* it.
C11_FetchBufferSized ==
    (FetchDone /\ expected_key_length >= 1 /\ expected_key_length <= 255) =>
        /\ Len(attest_calls[2].output) = expected_key_length
        /\ Len(key_bytes) = expected_key_length
        /\ key_bytes \in AdapterFills(attest_calls[2].output)

\* a well-formed RSAPrivateKey: a SEQUENCE of nine one-byte INTEGERs
SmallDerKey ==
    <<48, 27, 2, 1, 0, 2, 1, 33, 2, 1, 3, 2, 1, 7, 2, 1, 3, 2, 1, 11, 2, 1, 1, 2, 1, 7, 2, 1, 2>>

\* the same key in other encodings the reader takes: the length in three
\* octets, the indefinite length, and an empty SEQUENCE of other primes
DerKeys ==
    { SmallDerKey,
      <<48, 131, 0, 0, 27>> \o SubSeq(SmallDerKey, 3, 29),
      <<48, 128>> \o SubSeq(SmallDerKey, 3, 29) \o <<0, 0>>,
      <<48, 29>> \o SubSeq(SmallDerKey, 3, 29) \o <<48, 0>> }

\* byte strings a fetch may deliver: the keys, the key cut short, the key with
\* a wrong tag, the key with version 1 and no other primes, and two-byte
\* buffers
DerCandidates ==
    DerKeys \cup
    { SubSeq(SmallDerKey, 1, 28), <<49>> \o Tail(SmallDerKey),
      <<48, 27, 2, 1, 1>> \o SubSeq(SmallDerKey, 6, 29),
      <<0, 1>>, <<48, 48>>, <<>> }

GeneratedKey == Some([origin |-> "generated", bits |-> 2048])

KeyChosenPcs == {"subject", "not_before", "not_after", "sign", "bind", "listening", "exited"}

\* C12: bytes that parse as a DER private key make that recovered key the
\* chosen one, with no key generated; bytes that do not parse make
\* Rsa::generate(2048) run.  In every run exactly one key is chosen, it is the
\* key set in the certificate and serialized for TLS, and Rsa::generate runs
\* at most once.
C12_RecoverOrGenerate ==
    /\ pc = "parse" => \A b \in DerCandidates :
          IF b \in DerKeys
          THEN key_or_generate(private_key_from_der(b))
                   = [generate |-> FALSE, key |-> Some([origin |-> "recovered", der |-> b])]
          ELSE key_or_generate(private_key_from_der(b)) = [generate |-> TRUE, key |-> None]
    /\ Len(keygen_calls) <= 1
    /\ pc \in KeyChosenPcs =>
          /\ key # None
          /\ IF FetchDone /\ private_key_from_der(key_bytes) # None
             THEN key = private_key_from_der(key_bytes) /\ keygen_calls = <<>>
             ELSE key = GeneratedKey /\ keygen_calls = <<2048>>
    /\ creds # None =>
          /\ cert.pubkey = key
          /\ creds.val.server_key.body = key.val

\* the fetched bytes did not parse: one key was generated and the listener
\* serves it
C12_Witness ==
    /\ FetchDone
    /\ private_key_from_der(key_bytes) = None
    /\ pc = "listening"
    /\ key = GeneratedKey
    /\ keygen_calls = <<2048>>
    /\ creds.val.server_key.body = key.val

\* C13: the adapter is called at most twice; the first call is the probe,
\* with empty evidence and a one-byte buffer; a second call exists only after
\* a probe that returned Ok(Sev(n)) with n > 0, and carries the same empty
\* evidence; and once the startup has left retrieve_existing_key (so also
\* while the listener runs) the calls never change.
C13_AdapterProtocol ==
    /\ [](Len(attest_calls) <= 2)
    /\ []((pc \notin {"start", "probe"}) => ProbeDone)
    /\ [](ProbeDone => (attest_calls[1].input = <<>> /\ Len(attest_calls[1].output) = 1))
    /\ [](FetchDone =>
             /\ attest_calls[1].ok
             /\ attest_calls[1].att.tag = "Sev"
             /\ attest_calls[1].att.len > 0
             /\ attest_calls[2].input = attest_calls[1].input)
    /\ [][pc \notin {"probe", "fetch"} => attest_calls' = attest_calls]_vars

\* probe and fetch were made, the listener came up and handled a request
C13_Witness ==
    /\ FetchDone
    /\ attest_calls[1].att.tag = "Sev"
    /\ pc = "listening"
    /\ \E c \in Conns : conns[c].state = "responded"

\* the handler of connection c ran to its end
Serviced(c) == conns[c].state \in {"responded", "dropped", "dispatched"}

DispatchedOk(c) ==
    /\ Len(run_calls') = Len(run_calls) + 1
    /\ run_calls'[Len(run_calls')].conn = c
    /\ run_calls'[Len(run_calls')].returned_ok

\* C14 (as claimed): whatever its content, a request that was serviced has
\* ended the process, so that no later request is serviced.  (Requests whose
\* dispatch failed are left out here: they are the matter of C2.)
C14_FirstServicedEndsProcess ==
    \A c \in Conns : conns[c].state \in {"responded", "dispatched"} => pc # "listening"

\* C14 (amended): the first request whose body decodes and whose dispatch
\* succeeds ends the process in the step of its handler, and no handler ever
\* starts or ends after that; a request serviced while the process is still
\* listening is one that was rejected as malformed or whose failed dispatch
\* unwound, and each of these leaves the later requests to be serviced.
C14_FirstDispatchedEndsProcess ==
    /\ [][\A c \in Conns :
            (Handled(c) /\ DispatchedOk(c)) =>
                /\ pc' = "exited"
                /\ conns'[c].state = "dispatched"
                /\ \A i \in 1..Len(run_calls) : ~run_calls[i].returned_ok]_vars
    /\ [][\A c \in Conns :
            conns'[c] # conns[c] =>
                (pc = "listening" /\ \A i \in 1..Len(run_calls) : ~run_calls[i].returned_ok)]_vars
    /\ [](\A c \in Conns :
            (Serviced(c) /\ pc = "listening") =>
                \/ conns[c].state = "responded" /\ conns[c].response = FixedRejection
                \/ conns[c].state = "dropped"
                     /\ \E i \in 1..Len(run_calls) :
                           run_calls[i].conn = c /\ ~run_calls[i].returned_ok)

\* the connection that came second was fully received first and rejected as
\* malformed; the first one was serviced after it and ended the process
C14_Witness ==
    /\ conns[2].state = "responded"
    /\ conns[2].response = FixedRejection
    /\ conns[1].state = "dispatched"
    /\ pc = "exited"
    /\ Len(run_calls) = 1
    /\ LastCall.returned_ok

Active == {c \in Conns : conns[c].state = "handling"}

\* C15: at most one handler is active at any time; from the state where a
\* handler has started, the only step taken is the rest of that handler, in
\* which no other connection moves; and the decode, the dispatch and the exit
\* of a successfully dispatched envelope all happen in that one step.
C15_NonYieldingHandler ==
    /\ [](Cardinality(Active) <= 1)
    /\ [][\A c \in Conns :
            conns[c].state = "handling" =>
                /\ Handled(c)
                /\ \A d \in Conns \ {c} : conns'[d] = conns[d]]_vars
    /\ [][\A c \in Conns :
            (Handled(c) /\ from_slice(conns[c].body).ok) =>
                /\ Len(run_calls') = Len(run_calls) + 1
                /\ run_calls'[Len(run_calls')].returned_ok =>
                       (pc' = "exited" /\ exit_code' = {0})]_vars

\* a handler is active while another connection is in the middle of its body
\* and could take a step, were the loop to yield
C15_Witness ==
    /\ conns[1].state = "handling"
    /\ from_slice(conns[1].body).ok
    /\ conns[2].state = "receiving"

Stalled(c) == conns[c].state = "receiving" /\ conns'[c].state = "receiving"

\* C16 (as claimed): in a step over which a request is still in the middle
\* of its body transfer, no other request's handler starts or ends, nothing
\* is dispatched and the process does not exit.
C16_StalledBodyBlocks ==
    [][\A c \in Conns :
         Stalled(c) =>
             /\ \A d \in Conns \ {c} : conns'[d].state = "handling" <=> conns[d].state = "handling"
             /\ run_calls' = run_calls
             /\ pc' = pc]_vars

\* C16 (amended): a request in the middle of its body transfer leaves that
\* state only by its body completing: it is never timed out, dropped or
\* answered, its handler never starts and nothing of it is decoded or
\* dispatched; the other connections are not held up by it.
C16_StalledBodyWaits ==
    /\ [][\A c \in Conns :
            conns[c].state = "receiving" =>
                /\ conns'[c].state \in {"receiving", "complete"}
                /\ conns'[c].response = None
                /\ Stalled(c) => conns'[c] = conns[c]
                /\ \A i \in 1..Len(run_calls') : run_calls'[i].conn # c]_vars
    /\ [](\A c \in Conns :
            conns[c].state = "receiving" => (conns[c].body = <<>> /\ c \notin Active))

\* the first connection never got past its body transfer, and meanwhile the
\* second was received, decoded and dispatched and ended the process
C16_Witness ==
    /\ conns[1].state = "receiving"
    /\ conns[2].state = "dispatched"
    /\ Len(run_calls) = 1
    /\ LastCall.conn = 2
    /\ pc = "exited"

\* the key, the certificate and the serialized pair are of one key pair
OneKeyPair(k, certificate, pems) ==
    /\ k # None
    /\ certificate.pubkey = k
    /\ certificate.signed_by = k
    /\ pems.server_key = to_pem("RSA PRIVATE KEY", k.val)
    /\ pems.server_cert = to_pem("CERTIFICATE", certificate)
    /\ pems.server_cert.body.pubkey = k

\* the keys of the two paths: the one a well-formed DER blob parses to, and
\* the one Rsa::generate makes
PathKeys == {private_key_from_der(SmallDerKey), Some(Rsa_generate(key_length))}

\* C17: whichever path the key came by, the certificate built over it carries
\* it as public key and as signer, and the PEM pair holds that key and that
\* certificate; in every state with an issued identity this holds of the
\* process's key, certificate and credentials; and once issued, no step (no
\* handler run on a valid, malformed or failing request) changes any of them.
C17_ServiceIdentity ==
    /\ [](pc = "sign" => \A k \in PathKeys :
            OneKeyPair(k, sign_certificate(cert, k, now),
                       pem_pair(k, sign_certificate(cert, k, now))))
    /\ [](creds # None => OneKeyPair(key, cert, creds.val))
    /\ [][creds # None => UNCHANGED <<key, cert, creds>>]_vars
    /\ [][\A c \in Conns : Handled(c) => (creds # None /\ UNCHANGED <<key, cert, creds>>)]_vars

\* with the identity issued, one request was rejected as malformed and another
\* failed in dispatch and unwound
C17_Witness ==
    /\ creds # None
    /\ OneKeyPair(key, cert, creds.val)
    /\ \E c \in Conns : conns[c].state = "responded"
    /\ \E c \in Conns : conns[c].state = "dropped"
    /\ pc = "listening"

\* the probe reported Sev(n) with n beyond one byte
LongSevProbed ==
    /\ ProbeDone
    /\ attest_calls[1].ok
    /\ attest_calls[1].att.tag = "Sev"
    /\ attest_calls[1].att.len > 255

\* C18: the fetch is decided on the reported length n itself and the buffer
\* carries n modulo 256: for a reported Sev(n) with n > 255 the process goes
\* on to the fetch call, never straight to key generation, and the call's
\* buffer holds n - 256 * (n \div 256), which is 0 for n = 256 and 44 for
\* n = 300, and not n.
C18_LengthTruncation ==
    /\ \A n \in ProbeLens : wants_fetch(n) <=> n > 0
    /\ fetch_buffer(255) = <<0, 255>>
    /\ fetch_buffer(256) = <<0, 0>>
    /\ fetch_buffer(300) = <<0, 44>>
    /\ LongSevProbed =>
          /\ expected_key_length = attest_calls[1].att.len
          /\ pc = "fetch" \/ FetchDone
          /\ FetchDone =>
                /\ attest_calls[2].output[2] =
                       expected_key_length - 256 * (expected_key_length \div 256)
                /\ attest_calls[2].output[2] # expected_key_length

\* the probe reported Sev(256) and the fetch call was made with the value 0
C18_Witness ==
    /\ LongSevProbed
    /\ attest_calls[1].att.len = 256
    /\ FetchDone
    /\ attest_calls[2].output = <<0, 0>>

====
